---- MODULE Spec2Model ----
(***************************************************************************)
(* The server side of rsocket-go: the connection handler registered by     *)
(* server.serve (first frame dispatch, doSetup, doResume, the deferred     *)
(* session store), the session sweeper (loopCleanSession, doCleanSession,  *)
(* destroySessions), the frame reader's resume counter and Listen of the   *)
(* TCP and QUIC server transports.                                         *)
(***************************************************************************)
EXTENDS Integers, Sequences, FiniteSets, TLC

(* ------------------------------ bounds --------------------------------- *)

\* Number of connections the listener accepts.
MaxConns == 3

\* Number of server sockets alive at a time.
MaxSockets == 2

\* Last instant of the clock.
MaxTime == 2

\* Largest value the resumable read counter is followed to.
MaxBytes == 1

\* Largest value the counters of a connection are followed to.
MaxCount == 4

\* Number of calls of OnStart on the builder.
MaxOnStart == 3

\* Number of connections a listener accepts.
MaxAccepts == 2

\* Resume session duration chosen with WithServerResumeSessionDuration, in
\* clock instants.
SessionDuration == 1

(* ------------------------------ values --------------------------------- *)

Conns == 1..MaxConns

Sockets == 1..MaxSockets

\* Resume tokens are byte strings; <<0>> is what make([]byte, 1) holds.
Tokens == {<<0>>, <<1>>}

NoToken == <<>>

None == 0

\* Lengths of the frames read from a started transport.
FrameLens == {1}

ErrorCodeInvalidSetup == "InvalidSetup"

ErrorCodeUnsupportedSetup == "UnsupportedSetup"

ErrorCodeRejectedSetup == "RejectedSetup"

ErrorCodeRejectedResume == "RejectedResume"

ErrorCodeConnectionError == "ConnectionError"

ErrorCodeApplicationError == "ApplicationError"

errUnavailableResume == "resume not supported"

errUnavailableLease == "lease not supported"

errDuplicatedSetupToken == "duplicated setup token"

errFirstFrame == "first frame must be setup or resume"

errNoSuchSession == "no such session"

\* What the user acceptor may return: a responder, a plain error or a
\* *framing.FrameError carrying its own code and data.
AcceptorResults == {"ok", "error", "frameError"}

acceptorReason == "acceptor says no"

acceptorFrameData == "custom reason"

\* FrameError.Error() of that error: some text of its code and data.
acceptorFrameText == "ApplicationError: custom reason"

VARIABLES
  enable,     \* server.resumeOpts.enable
  leases,     \* server.leases # nil
  now,        \* time.Now()
  ctxDone,    \* the serve context is cancelled
  hpc,        \* position of each connection handler
  socketChan, \* the handler's socketChan: None or the socket it holds
  tp,         \* each connection's transport
  sock,       \* the server sockets
  sm,         \* the session manager's sessions
  sw,         \* the goroutine of loopCleanSession and its closers
  last,       \* the step just taken: the handler, its frame and its replies
  conn,       \* a tcpConn with its Counter, and the last call of Read or Write
  boot,       \* the builder's OnStart handlers and the start of serve
  lsn         \* a server transport, its listener and its call of Listen

\* The state of the server.
serverVars == <<enable, leases, now, ctxDone, hpc, socketChan, tp, sock, sm, sw, last>>

vars == <<serverVars, conn, boot, lsn>>

(* ------------------------------ frames --------------------------------- *)

NewFrameError(sid, code, data) ==
  [type |-> "ERROR", sid |-> sid, code |-> code, data |-> data, pos |-> 0]

NewResumeOK(position) ==
  [type |-> "RESUME_OK", sid |-> 0, code |-> "", data |-> "", pos |-> position]

\* make([]byte, n): n zero bytes.
MakeBytes(n) == [i \in 1..n |-> 0]

(* --------------------------- session manager --------------------------- *)

NewSession(deadline, s) == [sock |-> s, deadline |-> deadline]

\* A nil *session.Session.
NoSession == [sock |-> None, deadline |-> 0]

SessionToken(x) == sock[x.sock].token

\* Session.IsDead: the deadline has been reached.
IsDead(x) == x.deadline <= now

\* Manager.Push: the call has no result; the session joins the store.
Push(store, x) == store \cup {x}

\* Manager.Load: the sessions a lookup of the token can return.
Found(store, token) == {x \in store : SessionToken(x) = token}

\* A Load that leaves the session it returns in the store.
AfterLoadKept(store, x) == store

\* Manager.Load removes the session it returns from the store.
AfterLoad(store, x) == store \ {x}

\* Manager.Pop: the sessions of the earliest deadline, one of which is popped.
Earliest(store) == {x \in store : \A y \in store : x.deadline <= y.deadline}

\* Manager.Len
Len0(store) == Cardinality(store)

(* ------------------------------- state --------------------------------- *)

\* A server socket: created by NewServer or NewServerResume, with a token
\* in the second case; tp is the connection whose transport it is attached
\* to; starts and closes count the calls of Start and Close on it; paused
\* says that Pause has been called on it; readBytes is its counter of
\* resumable bytes read.
NoSocket ==
  [created |-> FALSE, token |-> NoToken, tp |-> None, responder |-> FALSE,
   starts |-> 0, paused |-> FALSE, closes |-> 0, readBytes |-> 0]

NoFrame == [type |-> "none", lease |-> FALSE, resume |-> FALSE, token |-> NoToken]

\* The record of a step of a connection handler: the handler c, the
\* operation ("first": the switch on the first frame, "exit": the return of
\* tp.Start with the deferred function), the first frame it read, what the
\* acceptor returned ("none" when it was not invoked), the calls of
\* Manager.Load, the frames handed to
\* Transport.Send, the session Manager.Load returned (or, for a step of the
\* sweeper, the session it closed), and the socket the step made, closed or
\* stored, as the step left it.
NoEvent ==
  [op |-> "none", c |-> None, frame |-> NoFrame, accResult |-> "none",
   loads |-> 0, sent |-> <<>>, found |-> NoSession, socket |-> NoSocket]

Event(op, c, frame) == [NoEvent EXCEPT !.op = op, !.c = c, !.frame = frame]

NewTransport == [closed |-> FALSE]

\* The sweeper: pc is its place in loopCleanSession, cur the session
\* doCleanSession popped, busy the session the closer goroutine of the
\* running doCleanSession received from deads, late the sessions that
\* closers of earlier runs still have to close.
IdleSweeper ==
  [pc |-> "select", cur |-> NoSession, busy |-> NoSession, late |-> {}]

\* A connection as newTCPRConnection makes it, with a Counter of zeros not
\* yet set on it; op, frame and err tell the last call of Read or Write.
NoConnFrame == [type |-> "none", len |-> 0, decodes |-> FALSE, valid |-> FALSE]

NewTCPRConnection ==
  [counted |-> FALSE, readBytes |-> 0, writeBytes |-> 0,
   op |-> "none", frame |-> NoConnFrame, err |-> FALSE]

\* The builder Receive() returns: calls are the arguments OnStart was
\* called with, onServe the handlers it kept; pc is the place of serve,
\* listening says that net.Listen succeeded, ran lists the handlers run.
Receive ==
  [pc |-> "build", calls |-> <<>>, onServe |-> <<>>, listening |-> FALSE,
   ran |-> <<>>]

\* newTCPServerTransport, newQuicServerTransport: a transport, not yet
\* listening, in a serve whose context is live. kind is "none" until
\* MakeServerTransport has chosen it from the scheme.
NewServerTransport ==
  [kind |-> "none",      \* tcpServerTransport or quicServerTransport
   pc |-> "make",        \* where serve and Listen are
   listener |-> "nil",   \* p.listener: nil, open or closed
   once |-> FALSE,       \* the sync.Once of Close has run
   closes |-> 0,         \* calls of listener.Close
   notified |-> 0,       \* values sent to the notifier
   ctx |-> "live",       \* the context given to Listen
   cancel |-> FALSE,     \* cancel() of listen's own context was called
   watcher |-> "none",   \* the goroutine of listen that waits for ctx.Done
   sessions |-> 0,       \* QUIC sessions accepted
   accepted |-> 0,       \* transports dispatched to the acceptor
   err |-> "none",       \* err of the accept loop
   result |-> "none",    \* what Listen returned
   deferred |-> FALSE]   \* serve's deferred t.Close has run

Init ==
  /\ conn = NewTCPRConnection
  /\ boot = Receive
  /\ lsn = NewServerTransport
  /\ enable \in BOOLEAN
  /\ leases \in BOOLEAN
  /\ now = 0
  /\ ctxDone = FALSE
  /\ hpc = [c \in Conns |-> "idle"]
  /\ socketChan = [c \in Conns |-> None]
  /\ tp = [c \in Conns |-> NewTransport]
  /\ sock = [s \in Sockets |-> NoSocket]
  /\ sm = {}
  /\ sw = IdleSweeper
  /\ last = NoEvent

(* ------------------------------ transport ------------------------------ *)

\* Transport.Close
CloseTransport(t) == [t EXCEPT !.closed = TRUE]

\* The sockets something refers to: a handler, a session of the store, or a
\* session in the hands of the sweeper or of a closer.
Referred(chan, store, sweeper) ==
  {chan[c] : c \in Conns}
  \cup {x.sock : x \in store \cup sweeper.late \cup {sweeper.cur, sweeper.busy}}

\* The memory of a socket nothing refers to is free for the next socket.
FreeSockets == Sockets \ Referred(socketChan, sm, sw)

\* The sockets, without those nothing refers to any more.
Collect(sk, refs) == [s \in Sockets |-> IF s \in refs THEN sk[s] ELSE NoSocket]

(* -------------------------- connection handler ------------------------- *)

\* A handler is "idle" until tcpServerTransport.listen dispatches it on an
\* accepted connection and it has read its first frame, "start" while
\* tp.Start runs, and "done" once it and its deferred function returned.
\* Connections are accepted in order.
Dispatched(c) ==
  /\ hpc[c] = "idle"
  /\ \A d \in Conns : d < c => hpc[d] # "idle"

\* serve: tp.ReadFirst fails; the transport is closed and the handler returns.
ReadFirstFail(c) ==
  /\ Dispatched(c)
  /\ tp' = [tp EXCEPT ![c] = CloseTransport(@)]
  /\ hpc' = [hpc EXCEPT ![c] = "done"]
  /\ last' = Event("readFirstFail", c, NoFrame)
  /\ UNCHANGED <<enable, leases, now, ctxDone, socketChan, sock, sm, sw, conn, boot, lsn>>

\* The default case replying with the code of a rejected setup.
FirstFrameErrorAsSetup == NewFrameError(0, ErrorCodeRejectedSetup, errFirstFrame)

\* serve, lines 224-229: the ERROR frame for a first frame of another type.
FirstFrameError == NewFrameError(0, ErrorCodeConnectionError, errFirstFrame)

\* serve, lines 213-218 and 225-228: an error frame is sent, the transport is
\* closed and the handler returns; its deferred function finds socketChan
\* empty.
Rejected(c, ev, err) ==
  /\ tp' = [tp EXCEPT ![c] = CloseTransport(@)]
  /\ hpc' = [hpc EXCEPT ![c] = "done"]
  /\ last' = [ev EXCEPT !.sent = <<err>>]
  /\ UNCHANGED socketChan

\* serve, default case of the switch on the first frame.
OtherFirst(c) ==
  /\ Dispatched(c)
  /\ Rejected(c, Event("first", c, [NoFrame EXCEPT !.type = "other"]), FirstFrameError)
  /\ UNCHANGED <<enable, leases, now, ctxDone, sock, sm, sw, conn, boot, lsn>>

\* doSetup, line 278: the token the duplicate check looks up.
SetupLookupToken(frame) == MakeBytes(Len(frame.token))

\* error.Error() of what the acceptor returned.
ErrorString(res) ==
  IF res = "frameError" THEN acceptorFrameText ELSE acceptorReason

\* doSetup, lines 268-269 and 289-295: the ERROR frame for an acceptor error.
AcceptorError(isResume, res) ==
  IF ~isResume
    THEN NewFrameError(0, ErrorCodeRejectedSetup, ErrorString(res))
    ELSE IF res = "frameError"
      THEN NewFrameError(0, ErrorCodeApplicationError, acceptorFrameData)
      ELSE NewFrameError(0, ErrorCodeInvalidSetup, ErrorString(res))

\* doSetup, lines 267 and 288: the socket made for the connection, with its
\* token when made by NewServerResume.
NewServerSocket(token) == [NoSocket EXCEPT !.created = TRUE, !.token = token]

\* A socket that is started without its responder set.
AttachedSocketBare(c, token) ==
  [NewServerSocket(token) EXCEPT !.tp = c, !.starts = @ + 1]

\* doSetup, lines 271-273 and 297-299, and serve, lines 219-223 and 230: the
\* responder and the transport are set, the socket goes to socketChan,
\* Start is called on it and the transport is started.
AttachedSocket(c, token) ==
  [NewServerSocket(token) EXCEPT !.responder = TRUE, !.tp = c, !.starts = @ + 1]

\* doSetup, lines 266-276 and 286-301, with serve, lines 213-223: the socket
\* s is made, the acceptor is invoked and returns res.
SetupSocket(c, ev, s, token, res) ==
  IF res # "ok"
    THEN /\ Rejected(c, [ev EXCEPT !.accResult = res, !.socket = NewServerSocket(token)],
              AcceptorError(token # NoToken, res))
         /\ sock' = sock
    ELSE /\ sock' = [sock EXCEPT ![s] = AttachedSocket(c, token)]
         /\ socketChan' = [socketChan EXCEPT ![c] = s]
         /\ tp' = [tp EXCEPT ![c] = NewTransport]
         /\ hpc' = [hpc EXCEPT ![c] = "start"]
         /\ last' = [ev EXCEPT !.accResult = res, !.socket = AttachedSocket(c, token)]

\* A server that accepts the LEASE flag without a Leases provider.
LeaseUnsupportedNever(frame) == FALSE

\* doSetup, line 250: the frame asks for lease and the server has no Leases.
LeaseUnsupported(frame) == frame.lease /\ ~leases

\* A server that accepts the RESUME flag with resume disabled.
ResumeUnsupportedNever(frame) == FALSE

\* doSetup, lines 255-258: the frame asks for resume and resume is disabled.
ResumeUnsupported(frame) == frame.resume /\ ~enable

\* serve, case *framing.FrameSetup, with doSetup.
DoSetup(c, frame, res) ==
  /\ Dispatched(c)
  /\ frame.type = "setup"
  /\ LET key == SetupLookupToken(frame)
         ev == Event("first", c, frame)
     IN
     IF LeaseUnsupported(frame) THEN
       /\ res = "ok"
       /\ Rejected(c, ev, NewFrameError(0, ErrorCodeUnsupportedSetup, errUnavailableLease))
       /\ UNCHANGED <<sock, sm>>
     ELSE IF ResumeUnsupported(frame) THEN
       /\ res = "ok"
       /\ Rejected(c, ev, NewFrameError(0, ErrorCodeUnsupportedSetup, errUnavailableResume))
       /\ UNCHANGED <<sock, sm>>
     ELSE IF ~frame.resume THEN
       /\ sm' = sm
       /\ FreeSockets # {}
       /\ SetupSocket(c, ev, CHOOSE s \in FreeSockets : \A t \in FreeSockets : s <= t,
                      NoToken, res)
     ELSE IF Found(sm, key) # {} THEN
       /\ res = "ok"
       /\ \E x \in Found(sm, key) :
            /\ sm' = AfterLoad(sm, x)
            /\ Rejected(c, [ev EXCEPT !.loads = 1, !.found = x],
                 NewFrameError(0, ErrorCodeRejectedSetup, errDuplicatedSetupToken))
       /\ sock' = Collect(sock, Referred(socketChan, sm', sw))
     ELSE
       /\ sm' = sm
       /\ FreeSockets # {}
       /\ SetupSocket(c, [ev EXCEPT !.loads = 1],
                      CHOOSE s \in FreeSockets : \A t \in FreeSockets : s <= t,
                      frame.token, res)
  /\ UNCHANGED <<enable, leases, now, ctxDone, sw, conn, boot, lsn>>

\* The SETUP frames a client may send: the token is present with the RESUME
\* flag only.
SetupFrames ==
  {[type |-> "setup", lease |-> l, resume |-> FALSE, token |-> NoToken] :
     l \in BOOLEAN}
  \cup {[type |-> "setup", lease |-> l, resume |-> TRUE, token |-> t] :
          l \in BOOLEAN, t \in Tokens}

ResumeFrames ==
  {[type |-> "resume", lease |-> FALSE, resume |-> FALSE, token |-> t] : t \in Tokens}

\* doResume, line 309: the position RESUME_OK carries for the session found.
ResumeOKPosition(x) == 0

\* A reply that takes a missing session for resume being disabled.
ResumeReplyMissing(found) ==
  IF ~enable \/ found = {}
    THEN NewFrameError(0, ErrorCodeRejectedResume, errUnavailableResume)
    ELSE NewResumeOK(ResumeOKPosition(CHOOSE x \in found : TRUE))

\* A reply that does not look at resumeOpts.enable.
ResumeReplyUnchecked(found) ==
  IF found # {}
    THEN NewResumeOK(ResumeOKPosition(CHOOSE x \in found : TRUE))
    ELSE NewFrameError(0, ErrorCodeRejectedResume, errNoSuchSession)

\* doResume, lines 306-321: the frame to reply with; found is the set holding
\* the session Manager.Load returned, empty when it returned none.
ResumeReply(found) ==
  IF ~enable
    THEN NewFrameError(0, ErrorCodeRejectedResume, errUnavailableResume)
    ELSE IF found # {}
      THEN NewResumeOK(ResumeOKPosition(CHOOSE x \in found : TRUE))
      ELSE NewFrameError(0, ErrorCodeRejectedResume, errNoSuchSession)

\* doResume, lines 322-325, and serve, line 230: the transport is closed
\* when sending the reply fails, and the transport is started.
ResumeSent(sendOk) == [NewTransport EXCEPT !.closed = ~sendOk]

\* serve, case *framing.FrameResume, with doResume.
DoResume(c, frame, sendOk) ==
  /\ Dispatched(c)
  /\ frame.type = "resume"
  /\ tp' = [tp EXCEPT ![c] = ResumeSent(sendOk)]
  /\ hpc' = [hpc EXCEPT ![c] = "start"]
  /\ LET ev == Event("first", c, frame)
     IN
     IF ~enable THEN
       /\ last' = [ev EXCEPT !.sent = <<ResumeReply({})>>]
       /\ UNCHANGED <<sm, sock, socketChan>>
     ELSE IF Found(sm, frame.token) # {} THEN
       \E x \in Found(sm, frame.token) :
         /\ sm' = AfterLoad(sm, x)
         /\ sock' = [sock EXCEPT ![x.sock].tp = c]
         /\ socketChan' = [socketChan EXCEPT ![c] = x.sock]
         /\ last' = [ev EXCEPT !.loads = 1, !.found = x, !.socket = sock'[x.sock],
                               !.sent = <<ResumeReply({x})>>]
     ELSE
       /\ last' = [ev EXCEPT !.loads = 1, !.sent = <<ResumeReply({})>>]
       /\ UNCHANGED <<sm, sock, socketChan>>
  /\ UNCHANGED <<enable, leases, now, ctxDone, sw, conn, boot, lsn>>

\* readFromDecoder, lines 69-71: the counter after a frame of n bytes is read;
\* counted says whether the connection has a counter set.
ReadFromDecoder(counter, counted, n, resumable) ==
  IF counted /\ resumable THEN counter + n ELSE counter

\* tcpConn.Read on a started transport: the socket attached to the connection
\* counts the frame when it is a resumable socket (its counter is the
\* connection's).
TransportRead(c, n, resumable) ==
  /\ hpc[c] = "start"
  /\ ~tp[c].closed
  /\ socketChan[c] # None
  /\ LET s == socketChan[c]
         r == ReadFromDecoder(sock[s].readBytes, sock[s].token # NoToken, n, resumable)
     IN /\ r <= MaxBytes
        /\ sock' = [sock EXCEPT ![s].readBytes = r]
  /\ last' = NoEvent
  /\ UNCHANGED <<enable, leases, now, ctxDone, hpc, socketChan, tp, sm, sw, conn, boot, lsn>>

\* A deadline that forgets the session duration.
DeadlineNow(t) == t

\* serve, line 191: the deadline of the session stored at time t.
Deadline(t) == t + SessionDuration

\* serve, lines 230-232 and 179-200: tp.Start returns, the connection is
\* over, and the deferred function of the handler runs.
TransportExit(c) ==
  /\ hpc[c] = "start"
  /\ tp' = [tp EXCEPT ![c] = CloseTransport(@)]
  /\ hpc' = [hpc EXCEPT ![c] = "done"]
  /\ socketChan' = [socketChan EXCEPT ![c] = None]
  /\ LET s == socketChan[c]
         ev == Event("exit", c, NoFrame)
     IN
     IF s = None THEN
       /\ last' = ev
       /\ UNCHANGED <<sock, sm>>
     ELSE IF sock[s].token = NoToken THEN
       /\ sm' = sm
       /\ last' = [ev EXCEPT !.socket = [sock[s] EXCEPT !.closes = @ + 1]]
       /\ sock' = Collect([sock EXCEPT ![s].closes = @ + 1], Referred(socketChan', sm, sw))
     ELSE
       /\ sm' = Push(sm, NewSession(Deadline(now), s))
       /\ last' = [ev EXCEPT !.socket = [sock[s] EXCEPT !.paused = TRUE]]
       /\ sock' = [sock EXCEPT ![s].paused = TRUE]
  /\ UNCHANGED <<enable, leases, now, ctxDone, sw, conn, boot, lsn>>

(* ------------------------------ the sweeper ---------------------------- *)

\* Session.Close closes the session's socket.
CloseSession(sk, x) == [sk EXCEPT ![x.sock].closes = @ + 1]

\* The record of a step that closed the session x.
Closed(x) ==
  [NoEvent EXCEPT !.op = "close", !.found = x, !.socket = CloseSession(sock, x)[x.sock]]

\* loopCleanSession, lines 342-343: the ticker fires and doCleanSession
\* begins, with a new closer goroutine; the closer of the run before may
\* still hold the last session it received.
SweepBegin ==
  /\ sw.pc = "select"
  /\ sw' = [sw EXCEPT !.pc = "loop", !.busy = NoSession,
                      !.late = IF sw.busy = NoSession THEN @ ELSE @ \cup {sw.busy}]
  /\ last' = NoEvent
  /\ UNCHANGED <<enable, leases, now, ctxDone, hpc, socketChan, tp, sock, sm, conn, boot, lsn>>

\* doCleanSession, lines 372-373: Len() > 0 and Pop().
SweepPop ==
  /\ sw.pc = "loop"
  /\ Len0(sm) > 0
  /\ \E x \in Earliest(sm) :
       /\ sm' = sm \ {x}
       /\ sw' = [sw EXCEPT !.pc = "check", !.cur = x]
  /\ last' = NoEvent
  /\ UNCHANGED <<enable, leases, now, ctxDone, hpc, socketChan, tp, sock, conn, boot, lsn>>

\* A run that ends on the live session it popped without pushing it back.
SweepPushBackDropped ==
  /\ sw.pc = "check"
  /\ ~IsDead(sw.cur)
  /\ sw' = [sw EXCEPT !.pc = "select", !.cur = NoSession]
  /\ sock' = Collect(sock, Referred(socketChan, sm, sw'))
  /\ last' = NoEvent
  /\ UNCHANGED <<enable, leases, now, ctxDone, hpc, socketChan, tp, sm, conn, boot, lsn>>

\* doCleanSession, lines 375-378 and 381: the popped session is alive, it is
\* pushed back and the run ends.
SweepPushBack ==
  /\ sw.pc = "check"
  /\ ~IsDead(sw.cur)
  /\ sm' = Push(sm, sw.cur)
  /\ sw' = [sw EXCEPT !.pc = "select", !.cur = NoSession]
  /\ last' = NoEvent
  /\ UNCHANGED <<enable, leases, now, ctxDone, hpc, socketChan, tp, sock, conn, boot, lsn>>

\* doCleanSession, line 379: the dead session is sent on deads, which the
\* closer receives once it has closed the one before.
SweepDead ==
  /\ sw.pc = "check"
  /\ IsDead(sw.cur)
  /\ sw.busy = NoSession
  /\ sw' = [sw EXCEPT !.pc = "loop", !.cur = NoSession, !.busy = sw.cur]
  /\ last' = NoEvent
  /\ UNCHANGED <<enable, leases, now, ctxDone, hpc, socketChan, tp, sock, sm, conn, boot, lsn>>

\* doCleanSession, lines 372 and 381: the store is empty, the run ends.
SweepEnd ==
  /\ sw.pc = "loop"
  /\ Len0(sm) = 0
  /\ sw' = [sw EXCEPT !.pc = "select"]
  /\ last' = NoEvent
  /\ UNCHANGED <<enable, leases, now, ctxDone, hpc, socketChan, tp, sock, sm, conn, boot, lsn>>

\* doCleanSession, lines 362-370: a closer goroutine closes the session it
\* received.
CloserClose ==
  /\ \/ /\ sw.busy # NoSession
        /\ sw' = [sw EXCEPT !.busy = NoSession]
        /\ sock' = Collect(CloseSession(sock, sw.busy), Referred(socketChan, sm, sw'))
        /\ last' = Closed(sw.busy)
     \/ \E x \in sw.late :
        /\ sw' = [sw EXCEPT !.late = @ \ {x}]
        /\ sock' = Collect(CloseSession(sock, x), Referred(socketChan, sm, sw'))
        /\ last' = Closed(x)
  /\ UNCHANGED <<enable, leases, now, ctxDone, hpc, socketChan, tp, sm, conn, boot, lsn>>

\* loopCleanSession, lines 337-339: the context is done, the loop is left
\* and the deferred destroySessions begins.
SweepStop ==
  /\ sw.pc = "select"
  /\ ctxDone
  /\ sw' = [sw EXCEPT !.pc = "destroy"]
  /\ last' = NoEvent
  /\ UNCHANGED <<enable, leases, now, ctxDone, hpc, socketChan, tp, sock, sm, conn, boot, lsn>>

\* destroySessions, lines 350-352: one turn of the loop.
DestroyPop ==
  /\ sw.pc = "destroy"
  /\ Len0(sm) > 0
  /\ \E x \in Earliest(sm) :
       /\ sm' = sm \ {x}
       /\ sock' = Collect(CloseSession(sock, x), Referred(socketChan, sm', sw))
       /\ last' = Closed(x)
  /\ UNCHANGED <<enable, leases, now, ctxDone, hpc, socketChan, tp, sw, conn, boot, lsn>>

\* destroySessions, line 350: the store is empty; loopCleanSession returns.
DestroyEnd ==
  /\ sw.pc = "destroy"
  /\ Len0(sm) = 0
  /\ sw' = [sw EXCEPT !.pc = "stopped"]
  /\ last' = NoEvent
  /\ UNCHANGED <<enable, leases, now, ctxDone, hpc, socketChan, tp, sock, sm, conn, boot, lsn>>

(* --------------------------- the environment --------------------------- *)

\* Time passes.
Tick ==
  /\ now < MaxTime
  /\ now' = now + 1
  /\ last' = NoEvent
  /\ UNCHANGED <<enable, leases, ctxDone, hpc, socketChan, tp, sock, sm, sw, conn, boot, lsn>>

\* The context given to Serve is cancelled.
Cancel ==
  /\ ~ctxDone
  /\ ctxDone' = TRUE
  /\ last' = NoEvent
  /\ UNCHANGED <<enable, leases, now, hpc, socketChan, tp, sock, sm, sw, conn, boot, lsn>>

Handler(c) ==
  \/ ReadFirstFail(c)
  \/ OtherFirst(c)
  \/ \E f \in SetupFrames, res \in AcceptorResults : DoSetup(c, f, res)
  \/ \E f \in ResumeFrames, ok \in BOOLEAN : DoResume(c, f, ok)
  \/ \E n \in FrameLens, r \in BOOLEAN : TransportRead(c, n, r)
  \/ TransportExit(c)

Sweeper ==
  \/ SweepBegin
  \/ SweepPop
  \/ SweepPushBack
  \/ SweepDead
  \/ SweepEnd
  \/ CloserClose
  \/ SweepStop
  \/ DestroyPop
  \/ DestroyEnd

Next ==
  \/ \E c \in Conns : Handler(c)
  \/ Sweeper
  \/ Tick
  \/ Cancel

Spec == Init /\ [][Next]_vars

(* ---------------------- OnStart and the start of serve ------------------ *)

\* The functions given to OnStart; NilFunc is nil.
NilFunc == "nil"

Funcs == {NilFunc, "f", "g"}

\* An OnStart that puts the handler in front of those registered before.
RegisteredInFront(onServe, onStart) ==
  IF onStart # NilFunc THEN <<onStart>> \o onServe ELSE onServe

\* server.OnStart, lines 117-122: p.onServe after the call.
Registered(onServe, onStart) ==
  IF onStart # NilFunc THEN Append(onServe, onStart) ELSE onServe

\* server.OnStart
OnStart(onStart) ==
  /\ boot.pc = "build"
  /\ Len(boot.calls) < MaxOnStart
  /\ boot' = [boot EXCEPT !.calls = Append(@, onStart),
                          !.onServe = Registered(@, onStart)]
  /\ UNCHANGED <<serverVars, conn, lsn>>

\* serve, lines 156-167: ParseURI, IsValidFragment or MakeServerTransport
\* fails and serve returns the error.
ServeInvalid ==
  /\ boot.pc = "build"
  /\ boot' = [boot EXCEPT !.pc = "returned"]
  /\ UNCHANGED <<serverVars, conn, lsn>>

\* serve, lines 156-242: the transport is made, the goroutine of the
\* notifier waits on serveNotifier and t.Listen is called.
ServeListen ==
  /\ boot.pc = "build"
  /\ boot' = [boot EXCEPT !.pc = "listen"]
  /\ UNCHANGED <<serverVars, conn, lsn>>

\* tcpServerTransport.Listen, lines 36-47: net.Listen or tls.Listen fails
\* and Listen returns; nothing is sent on the notifier.
ListenFail ==
  /\ boot.pc = "listen"
  /\ boot' = [boot EXCEPT !.pc = "returned"]
  /\ UNCHANGED <<serverVars, conn, lsn>>

\* tcpServerTransport.Listen, lines 36-49: the listener is set and the send
\* on the notifier waits for the goroutine of serve.
ListenOk ==
  /\ boot.pc = "listen"
  /\ boot' = [boot EXCEPT !.pc = "notify", !.listening = TRUE]
  /\ UNCHANGED <<serverVars, conn, lsn>>

\* serve, line 237, with Listen, lines 49-50: the goroutine receives from
\* serveNotifier; Listen goes on to accept connections.
Notified ==
  /\ boot.pc = "notify"
  /\ boot' = [boot EXCEPT !.pc = "run"]
  /\ UNCHANGED <<serverVars, conn, lsn>>

\* serve, lines 238-240: fn[i]() for the next i.
RunOnServe ==
  /\ boot.pc = "run"
  /\ Len(boot.ran) < Len(boot.onServe)
  /\ boot' = [boot EXCEPT !.ran = Append(@, boot.onServe[Len(boot.ran) + 1])]
  /\ UNCHANGED <<serverVars, conn, lsn>>

\* serve, lines 238-241: the loop over fn is over.
OnServeDone ==
  /\ boot.pc = "run"
  /\ Len(boot.ran) = Len(boot.onServe)
  /\ boot' = [boot EXCEPT !.pc = "started"]
  /\ UNCHANGED <<serverVars, conn, lsn>>

NextServe ==
  \/ \E f \in Funcs : OnStart(f)
  \/ ServeInvalid
  \/ ServeListen
  \/ ListenFail
  \/ ListenOk
  \/ Notified
  \/ RunOnServe
  \/ OnServeDone

\* The builder and the start of serve alone.
SpecServe == Init /\ [][NextServe]_vars

(* ------------------- a connection and its resume counter ---------------- *)

\* The frame types, and whether the codec marks them as resumable.
FrameTypes ==
  {"PAYLOAD", "REQUEST_RESPONSE", "REQUEST_N", "CANCEL", "ERROR",
   "KEEPALIVE", "LEASE", "SETUP", "METADATA_PUSH"}

\* Frame.IsResumable
IsResumable(type) ==
  type \in {"PAYLOAD", "REQUEST_RESPONSE", "REQUEST_N", "CANCEL", "ERROR"}

\* The frames that arrive on a connection or are written to it: decodes says
\* that framing.NewFromBase accepts the frame, valid that Validate does.
ConnFrames ==
  [type : FrameTypes, len : {1, 2}, decodes : BOOLEAN, valid : BOOLEAN]

\* Counter.incrReadBytes and Counter.incrWriteBytes
IncrBytes(v, n) == v + n

\* A writeTo that counts every frame.
WriteToAll(counter, counted, frame) ==
  IF counted THEN IncrBytes(counter, frame.len) ELSE counter

\* writeTo, lines 28-31: the write counter after the frame is written.
WriteTo(counter, counted, frame) ==
  IF counted /\ IsResumable(frame.type) THEN IncrBytes(counter, frame.len) ELSE counter

\* readFromDecoder, lines 72-81: the error of NewFromBase or of Validate.
ReadError(frame) == ~frame.decodes \/ ~frame.valid

\* tcpConn.SetCounter
SetCounter(c) ==
  /\ conn' = [conn EXCEPT !.counted = c, !.op = "none", !.frame = NoConnFrame, !.err = FALSE]
  /\ UNCHANGED <<serverVars, boot, lsn>>

\* tcpConn.Read with readFromDecoder: decoder.Read fails and nothing is
\* counted, lines 53-60.
ConnReadFail ==
  /\ conn' = [conn EXCEPT !.op = "read", !.frame = NoConnFrame, !.err = TRUE]
  /\ UNCHANGED <<serverVars, boot, lsn>>

\* tcpConn.Read with readFromDecoder: a frame is read, lines 61-85.
ConnRead(frame) ==
  /\ LET r == ReadFromDecoder(conn.readBytes, conn.counted, frame.len,
                               IsResumable(frame.type))
     IN /\ r <= MaxCount
        /\ conn' = [conn EXCEPT !.readBytes = r, !.op = "read", !.frame = frame,
                                !.err = ReadError(frame)]
  /\ UNCHANGED <<serverVars, boot, lsn>>

\* tcpConn.Write with writeTo; the write to the writer succeeds or fails
\* after the frame is counted.
ConnWrite(frame, err) ==
  /\ frame.decodes /\ frame.valid
  /\ LET w == WriteTo(conn.writeBytes, conn.counted, frame)
     IN /\ w <= MaxCount
        /\ conn' = [conn EXCEPT !.writeBytes = w, !.op = "write", !.frame = frame,
                                !.err = err]
  /\ UNCHANGED <<serverVars, boot, lsn>>

NextConn ==
  \/ \E c \in BOOLEAN : SetCounter(c)
  \/ ConnReadFail
  \/ \E f \in ConnFrames : ConnRead(f)
  \/ \E f \in ConnFrames, err \in BOOLEAN : ConnWrite(f, err)

\* A connection alone, its counter set or not, reading and writing frames.
SpecConn == Init /\ [][NextConn]_vars

(* --------------------------- server transports ------------------------ *)

Schemes == {"tcp", "quic"}

\* The errors Accept of a net.Listener returns to the loop of listen.
AcceptErrors == {"EOF", "closed", "other"}

errListenFailed == "server listen failed"

errAcceptFailed == "accept next conn failed"

errQuic == "quic error"

\* isClosedErr, and the io.EOF test before it.
IsClosedErr(e) == e \in {"EOF", "closed"}

\* A Close that calls listener.Close every time.
CloseAgain(l) ==
  IF l.listener = "nil" THEN l
  ELSE [l EXCEPT !.listener = "closed", !.closes = @ + 1]

\* tcpServerTransport.Close, quicServerTransport.Close: nothing without a
\* listener, else listener.Close under the sync.Once.
Close(l) ==
  IF l.listener = "nil" \/ l.once THEN l
  ELSE [l EXCEPT !.once = TRUE, !.listener = "closed", !.closes = @ + 1]

\* URI.MakeServerTransport
MakeServerTransport(scheme) ==
  /\ lsn.pc = "make"
  /\ lsn' = [lsn EXCEPT !.kind = scheme, !.pc = "listen"]
  /\ UNCHANGED <<serverVars, conn, boot>>

\* The context given to Listen is cancelled.
ContextCancel ==
  /\ lsn.pc # "make"
  /\ lsn.ctx = "live"
  /\ lsn' = [lsn EXCEPT !.ctx = "done"]
  /\ UNCHANGED <<serverVars, conn, boot>>

\* tcpServerTransport.Listen: net.Listen or tls.Listen.
ListenTCP(ok) ==
  /\ lsn.kind = "tcp"
  /\ lsn.pc = "listen"
  /\ lsn' = IF ok
            THEN [lsn EXCEPT !.listener = "open", !.pc = "notify"]
            ELSE [lsn EXCEPT !.result = errListenFailed, !.pc = "returned"]
  /\ UNCHANGED <<serverVars, conn, boot>>

\* notifier <- struct{}{}, received by the goroutine of serve; then listen
\* makes its context and starts the goroutine that waits for it.
NotifyTCP ==
  /\ lsn.kind = "tcp"
  /\ lsn.pc = "notify"
  /\ lsn' = [lsn EXCEPT !.notified = @ + 1, !.watcher = "wait", !.pc = "accept"]
  /\ UNCHANGED <<serverVars, conn, boot>>

\* The goroutine of listen: after <-ctx.Done() of listen's context, p.Close()
\* and close(stop).
Watcher ==
  /\ lsn.watcher = "wait"
  /\ lsn.ctx = "done" \/ lsn.cancel
  /\ lsn' = [Close(lsn) EXCEPT !.watcher = "done"]
  /\ UNCHANGED <<serverVars, conn, boot>>

\* listener.Accept returns a connection: its transport goes to the acceptor
\* in a goroutine of its own.
AcceptConn ==
  /\ lsn.kind = "tcp"
  /\ lsn.pc = "accept"
  /\ lsn.listener = "open"
  /\ lsn.accepted < MaxAccepts
  /\ lsn' = [lsn EXCEPT !.accepted = @ + 1]
  /\ UNCHANGED <<serverVars, conn, boot>>

\* listener.Accept returns an error: that of a closed listener once it is
\* closed, io.EOF or another error while it is open. The loop ends, with nil
\* for io.EOF and the closed listener; then cancel().
AcceptError(e) ==
  /\ lsn.kind = "tcp"
  /\ lsn.pc = "accept"
  /\ (e = "closed") <=> (lsn.listener = "closed")
  /\ lsn' = [lsn EXCEPT !.err = IF IsClosedErr(e) THEN "nil" ELSE errAcceptFailed,
                        !.cancel = TRUE,
                        !.pc = "stop"]
  /\ UNCHANGED <<serverVars, conn, boot>>

\* <-stop; return
ListenReturn ==
  /\ lsn.pc = "stop"
  /\ lsn.watcher = "done"
  /\ lsn' = [lsn EXCEPT !.result = lsn.err, !.pc = "returned"]
  /\ UNCHANGED <<serverVars, conn, boot>>

\* serve's deferred t.Close(), once Listen has returned.
ServeClose ==
  /\ lsn.pc = "returned"
  /\ ~lsn.deferred
  /\ lsn' = [Close(lsn) EXCEPT !.deferred = TRUE]
  /\ UNCHANGED <<serverVars, conn, boot>>

\* quicServerTransport.Listen: quic.ListenAddr.
ListenQuic(ok) ==
  /\ lsn.kind = "quic"
  /\ lsn.pc = "listen"
  /\ lsn' = IF ok
            THEN [lsn EXCEPT !.listener = "open", !.pc = "notify"]
            ELSE [lsn EXCEPT !.result = errQuic, !.pc = "returned"]
  /\ UNCHANGED <<serverVars, conn, boot>>

\* notifier <- struct{}{}
NotifyQuic ==
  /\ lsn.kind = "quic"
  /\ lsn.pc = "notify"
  /\ lsn' = [lsn EXCEPT !.notified = @ + 1, !.pc = "accept"]
  /\ UNCHANGED <<serverVars, conn, boot>>

\* listener.Accept(ctx) returns a session: the loop goes on to AcceptStream.
QuicAccept ==
  /\ lsn.kind = "quic"
  /\ lsn.pc = "accept"
  /\ lsn.ctx = "live"
  /\ lsn.sessions < MaxAccepts
  /\ lsn' = [lsn EXCEPT !.sessions = @ + 1, !.pc = "stream"]
  /\ UNCHANGED <<serverVars, conn, boot>>

\* listener.Accept(ctx) returns an error, as it does once ctx is done:
\* Listen returns it.
QuicAcceptError ==
  /\ lsn.kind = "quic"
  /\ lsn.pc = "accept"
  /\ lsn' = [lsn EXCEPT !.err = errQuic, !.result = errQuic, !.pc = "returned"]
  /\ UNCHANGED <<serverVars, conn, boot>>

\* session.AcceptStream(ctx) returns the stream the client has opened: the
\* transport goes to the acceptor in a goroutine of its own. Until the client
\* opens a stream the call, and the loop with it, waits.
QuicAcceptStream ==
  /\ lsn.kind = "quic"
  /\ lsn.pc = "stream"
  /\ lsn.ctx = "live"
  /\ lsn' = [lsn EXCEPT !.accepted = @ + 1, !.pc = "accept"]
  /\ UNCHANGED <<serverVars, conn, boot>>

\* session.AcceptStream(ctx) returns an error, as it does when the session
\* fails or ctx is done: Listen returns it.
QuicAcceptStreamError ==
  /\ lsn.kind = "quic"
  /\ lsn.pc = "stream"
  /\ lsn' = [lsn EXCEPT !.err = errQuic, !.result = errQuic, !.pc = "returned"]
  /\ UNCHANGED <<serverVars, conn, boot>>

NextListen ==
  \/ \E scheme \in Schemes : MakeServerTransport(scheme)
  \/ ContextCancel
  \/ \E ok \in BOOLEAN : ListenTCP(ok)
  \/ NotifyTCP
  \/ Watcher
  \/ AcceptConn
  \/ \E e \in AcceptErrors : AcceptError(e)
  \/ ListenReturn
  \/ ServeClose
  \/ \E ok \in BOOLEAN : ListenQuic(ok)
  \/ NotifyQuic
  \/ QuicAccept
  \/ QuicAcceptError
  \/ QuicAcceptStream
  \/ QuicAcceptStreamError

\* The goroutines of Listen, of its watcher and of the receiver of the
\* notifier are scheduled, and Accept of a closed listener returns.
ListenFairness ==
  /\ WF_vars(NotifyTCP)
  /\ WF_vars(Watcher)
  /\ WF_vars(AcceptError("closed"))
  /\ WF_vars(ListenReturn)

SpecListen == Init /\ [][NextListen]_vars /\ ListenFairness

(* ------------------------------- claims -------------------------------- *)

\* The sessions of a token that are held for resumption and not expired:
\* those in the store and the one doCleanSession has popped and not yet
\* pushed back.
Alive(token) ==
  {x \in sm \cup (IF sw.pc = "check" THEN {sw.cur} ELSE {}) :
     SessionToken(x) = token /\ x.deadline > now}

\* The sessions of a token currently held in the session store.
Held(token) == {x \in sm : SessionToken(x) = token}

\* The step just taken is handler c's switch on a first frame of this type.
FirstFrameStep(type) ==
  /\ last'.op = "first"
  /\ last'.frame.type = type
  /\ hpc[last'.c] = "idle"

\* C1: a first frame that is neither SETUP nor RESUME is answered with
\* exactly one ERROR frame on stream 0, code ConnectionError, data "first
\* frame must be setup or resume"; the transport is closed, no socket is
\* made or started, the handler holds no socket and the session store is
\* left as it was when the handler has returned.
C1_OtherFirstFrame ==
  [][FirstFrameStep("other") =>
       /\ last'.sent = <<[type |-> "ERROR", sid |-> 0, code |-> "ConnectionError",
                          data |-> "first frame must be setup or resume", pos |-> 0]>>
       /\ tp'[last'.c].closed
       /\ hpc'[last'.c] = "done"
       /\ last'.socket = NoSocket
       /\ last'.accResult = "none"
       /\ socketChan'[last'.c] = None
       /\ sock' = sock
       /\ sm' = sm]_vars

\* C1 happens: such a frame was rejected while a session was in the store.
C1_Witness ==
  /\ last.op = "first"
  /\ last.frame.type = "other"
  /\ tp[last.c].closed
  /\ sm # {}

\* C2: a RESUME that finds its session is answered with a RESUME_OK whose
\* position is the count of resumable bytes the server has read on that
\* session's socket.
C2_ResumeOKPosition ==
  (last.op = "first" /\ last.frame.type = "resume" /\ last.found # NoSession) =>
    /\ Len(last.sent) = 1
    /\ last.sent[1].type = "RESUME_OK"
    /\ last.sent[1].pos = last.socket.readBytes

\* C3: a SETUP with the RESUME flag whose token is the token of a session in
\* the store is answered with ERROR RejectedSetup "duplicated setup token";
\* the acceptor is not invoked and no socket is made.
C3_DuplicateToken ==
  [][(/\ FirstFrameStep("setup")
      /\ last'.frame.resume
      /\ enable
      /\ (last'.frame.lease => leases)
      /\ Held(last'.frame.token) # {}) =>
       /\ last'.sent = <<[type |-> "ERROR", sid |-> 0, code |-> "RejectedSetup",
                          data |-> "duplicated setup token", pos |-> 0]>>
       /\ last'.accResult = "none"
       /\ last'.socket = NoSocket
       /\ socketChan'[last'.c] = None]_vars

\* C4: when the acceptor returns an error for a SETUP, with or without the
\* RESUME flag, the reply is one ERROR frame of code RejectedSetup carrying
\* the acceptor's reason, the transport is closed, the socket made for the
\* connection is never started nor attached to the transport, and no session
\* is stored for it.
C4_AcceptorRejects ==
  [][(FirstFrameStep("setup") /\ last'.accResult \in {"error", "frameError"}) =>
       /\ Len(last'.sent) = 1
       /\ last'.sent[1].type = "ERROR"
       /\ last'.sent[1].sid = 0
       /\ last'.sent[1].code = "RejectedSetup"
       /\ last'.sent[1].data \in
            IF last'.accResult = "error" THEN {acceptorReason}
            ELSE {acceptorFrameData, acceptorFrameText}
       /\ tp'[last'.c].closed
       /\ last'.socket.starts = 0
       /\ last'.socket.tp = None
       /\ socketChan'[last'.c] = None
       /\ sm' = sm]_vars

\* C5: while the server runs, a RESUME carrying the token of a session that
\* was stored, has not been resumed and whose deadline has not passed is
\* answered with RESUME_OK and its socket goes to the handler, whatever the
\* sweeper is doing at that moment.
C5_ResumeOfLiveSession ==
  [][(/\ FirstFrameStep("resume")
      /\ enable
      /\ ~ctxDone
      /\ Alive(last'.frame.token) # {}) =>
       /\ Len(last'.sent) = 1
       /\ last'.sent[1].type = "RESUME_OK"
       /\ socketChan'[last'.c] # None]_vars

\* The sessions in the hands of the sweeper and of the closers.
InHand == (sw.late \cup {sw.cur, sw.busy}) \ {NoSession}

\* A socket a handler holds is attached to that handler's transport only, is
\* held by no other handler, and is in no session of the store, of the
\* sweeper or of a closer.
OneTransport ==
  \A c \in Conns :
    socketChan[c] # None =>
      /\ sock[socketChan[c]].tp = c
      /\ \A d \in Conns \ {c} : socketChan[d] # socketChan[c]
      /\ \A x \in sm \cup InHand : x.sock # socketChan[c]

\* C6: the lookup of a RESUME takes the session out of the store in the same
\* step: the RESUME that finds a session of its token is answered RESUME_OK
\* and gets that session's socket, the session is in the store no more, so
\* that until the next disconnect stores it again every other RESUME of the
\* token finds nothing and is answered ERROR RejectedResume "no such
\* session"; a socket is never attached to two transports.
C6_LoadRemoves ==
  [][/\ OneTransport'
     /\ (FirstFrameStep("resume") /\ enable) =>
          IF Held(last'.frame.token) # {}
            THEN /\ Len(last'.sent) = 1
                 /\ last'.sent[1].type = "RESUME_OK"
                 /\ last'.found \in Held(last'.frame.token)
                 /\ sm' = sm \ {last'.found}
                 /\ socketChan'[last'.c] = last'.found.sock
            ELSE /\ last'.sent = <<[type |-> "ERROR", sid |-> 0, code |-> "RejectedResume",
                                    data |-> "no such session", pos |-> 0]>>
                 /\ socketChan'[last'.c] = None
                 /\ sm' = sm]_vars

\* C6 happens: a RESUME was refused with "no such session" while another
\* handler holds the socket of that token, a socket that had been paused and
\* resumed.
C6_Witness ==
  /\ last.op = "first"
  /\ last.frame.type = "resume"
  /\ last.sent # <<>>
  /\ last.sent[1].data = "no such session"
  /\ \E c \in Conns \ {last.c} :
       /\ hpc[c] = "start"
       /\ socketChan[c] # None
       /\ sock[socketChan[c]].token = last.frame.token
       /\ sock[socketChan[c]].paused

SweepReturn == sw.pc \in {"loop", "check"} /\ sw'.pc = "select"

\* What a run of doCleanSession does with the store: when it returns no
\* session of the store has a deadline <= now and the live session it popped
\* is back in the store; a session it removes has a deadline <= now and goes
\* to the closer of the run.
SweepStore ==
  /\ SweepReturn =>
       /\ \A x \in sm' : x.deadline > now'
       /\ sw.pc = "check" => (sw.cur.deadline > now /\ sm' = sm \cup {sw.cur})
       /\ sw.pc = "loop" => sm' = sm
       /\ sw'.cur = NoSession
  /\ (sw.pc = "check" /\ sw'.pc = "loop") =>
       /\ sw.cur.deadline <= now
       /\ sw.cur \notin sm'
       /\ sw'.busy = sw.cur

Quiescent ==
  /\ sw.pc = "stopped"
  /\ \A c \in Conns : hpc[c] = "done"
  /\ InHand = {}

\* C9: once the server has shut down and nothing runs any more, the session
\* store is empty: every session stored and not resumed was popped and
\* closed, also those stored by handlers that returned while or after
\* destroySessions ran.
C9_ShutdownClosesAll == Quiescent => sm = {}

\* C10: with resume disabled, a RESUME is answered with ERROR RejectedResume
\* "resume not supported"; Manager.Load is not called, the store is left as
\* it was and the handler gets no socket.
C10_ResumeDisabled ==
  [][(FirstFrameStep("resume") /\ ~enable) =>
       /\ last'.sent = <<[type |-> "ERROR", sid |-> 0, code |-> "RejectedResume",
                          data |-> "resume not supported", pos |-> 0]>>
       /\ last'.loads = 0
       /\ last'.found = NoSession
       /\ last'.socket = NoSocket
       /\ socketChan'[last'.c] = None
       /\ sock' = sock
       /\ sm' = sm]_vars

\* C10 happens: a RESUME was answered while resume is disabled, after a
\* socket had been set up.
C10_Witness ==
  /\ ~enable
  /\ last.op = "first"
  /\ last.frame.type = "resume"
  /\ last.sent # <<>>
  /\ \E c \in Conns : socketChan[c] # None

C12_LeaseUnsupported ==
  [][(FirstFrameStep("setup") /\ last'.frame.lease /\ ~leases) =>
       /\ Len(last'.sent) = 1
       /\ last'.sent[1].type = "ERROR"
       /\ last'.sent[1].sid = 0
       /\ last'.sent[1].code = "UnsupportedSetup"
       /\ tp'[last'.c].closed
       /\ hpc'[last'.c] = "done"
       /\ last'.accResult = "none"
       /\ last'.socket = NoSocket
       /\ socketChan'[last'.c] = None
       /\ sock' = sock]_vars

\* C12 happens: such a SETUP was refused, with the RESUME flag and resume
\* enabled, while a session was in the store.
C12_Witness ==
  /\ ~leases
  /\ enable
  /\ last.op = "first"
  /\ last.frame.type = "setup"
  /\ last.frame.lease
  /\ last.frame.resume
  /\ last.sent # <<>>
  /\ sm # {}

\* C13: a SETUP with the RESUME flag on a server with resume disabled is
\* answered with one ERROR on stream 0 of code UnsupportedSetup and the
\* transport is closed; the acceptor is not invoked, no socket is made,
\* Manager.Load is not called and the store is left as it was.
C13_ResumeUnsupported ==
  [][(FirstFrameStep("setup") /\ last'.frame.resume /\ ~enable) =>
       /\ Len(last'.sent) = 1
       /\ last'.sent[1].type = "ERROR"
       /\ last'.sent[1].sid = 0
       /\ last'.sent[1].code = "UnsupportedSetup"
       /\ tp'[last'.c].closed
       /\ hpc'[last'.c] = "done"
       /\ last'.accResult = "none"
       /\ last'.socket = NoSocket
       /\ last'.loads = 0
       /\ socketChan'[last'.c] = None
       /\ sock' = sock
       /\ sm' = sm]_vars

\* C13 happens: such a SETUP was refused on a server that has a Leases
\* provider, so that the resume check is the one that refused it.
C13_Witness ==
  /\ ~enable
  /\ leases
  /\ last.op = "first"
  /\ last.frame.type = "setup"
  /\ last.frame.resume
  /\ last.sent # <<>>
  /\ last.sent[1].data = "resume not supported"

\* The step just taken is a call of Read or Write on the connection that
\* got or wrote a frame.
ConnStep(op) == conn' # conn /\ conn'.op = op /\ conn'.frame # NoConnFrame

\* C14: the read counter advances only after validation: a resumable frame
\* that NewFromBase or Validate refuses leaves it as it was, and a frame that
\* passes adds exactly its length when the counter is set and the frame is
\* resumable.
C14_CountAfterValidation ==
  [][ConnStep("read") =>
       conn'.readBytes =
         IF conn.counted /\ ~conn'.err
              /\ conn'.frame.type \in
                   {"PAYLOAD", "REQUEST_RESPONSE", "REQUEST_N", "CANCEL", "ERROR"}
           THEN conn.readBytes + conn'.frame.len
           ELSE conn.readBytes]_vars

\* C15: the write counter changes only when a resumable frame is written
\* with a counter set, the read counter only when one is read, each by the
\* length of the frame; no counter ever decreases; a KEEPALIVE, LEASE, SETUP
\* or METADATA_PUSH frame changes neither, and without a counter set nothing
\* is counted.
C15_CountersCountResumable ==
  [][conn' # conn =>
       LET f == conn'.frame
           resumable ==
             f.type \in {"PAYLOAD", "REQUEST_RESPONSE", "REQUEST_N", "CANCEL", "ERROR"}
       IN /\ conn'.readBytes >= conn.readBytes
          /\ conn'.writeBytes >= conn.writeBytes
          /\ conn'.readBytes # conn.readBytes =>
               /\ conn.counted /\ conn'.op = "read" /\ resumable
               /\ conn'.readBytes = conn.readBytes + f.len
               /\ conn'.writeBytes = conn.writeBytes
          /\ conn'.writeBytes # conn.writeBytes =>
               /\ conn.counted /\ conn'.op = "write" /\ resumable
               /\ conn'.writeBytes = conn.writeBytes + f.len
               /\ conn'.readBytes = conn.readBytes
          /\ (conn.counted /\ resumable /\ conn'.op = "write") =>
               conn'.writeBytes = conn.writeBytes + f.len
          /\ (conn.counted /\ resumable /\ conn'.op = "read") =>
               conn'.readBytes = conn.readBytes + f.len]_vars

\* C15 happens: with both counters above 0, a KEEPALIVE of 2 bytes was
\* written on a connection with its counter set.
C15_Witness ==
  /\ conn.counted
  /\ conn.readBytes > 0
  /\ conn.writeBytes > 0
  /\ conn.readBytes # conn.writeBytes
  /\ conn.op = "write"
  /\ conn.frame.type = "KEEPALIVE"
  /\ conn.frame.len = 2

\* The functions other than nil that OnStart was called with, in the order
\* of the calls.
NonNilCalls == SelectSeq(boot.calls, LAMBDA f : f # "nil")

\* C16: the handlers run are, in order, the first of the non-nil functions
\* OnStart was called with, each call's function once; none runs before the
\* listener is set, none when serve returned an error, and all have run
\* once the goroutine of the notifier is through.
C16_OnStartAfterListen ==
  /\ Len(boot.ran) <= Len(NonNilCalls)
  /\ \A i \in 1..Len(boot.ran) : boot.ran[i] = NonNilCalls[i]
  /\ boot.ran # <<>> => boot.listening
  /\ boot.pc = "returned" => boot.ran = <<>>
  /\ boot.pc = "started" => boot.ran = NonNilCalls

\* C16 happens: OnStart was called with g, nil and f, the server listens and
\* g and f have run in this order.
C16_Witness ==
  /\ boot.calls = <<"g", "nil", "f">>
  /\ boot.pc = "started"
  /\ boot.listening
  /\ boot.ran = <<"g", "f">>

\* C17: an accepted SETUP has invoked the acceptor, which returned a
\* responder, and the socket of the connection goes to the handler started
\* once, with its responder set and attached to the handler's transport; a
\* RESUME does not invoke the acceptor and the socket it re-attaches is not
\* started again; no socket is ever started twice or without a responder.
C17_StartOnce ==
  [][/\ (FirstFrameStep("setup") /\ hpc'[last'.c] = "start") =>
          /\ last'.accResult = "ok"
          /\ socketChan'[last'.c] # None
          /\ sock'[socketChan'[last'.c]] = last'.socket
          /\ last'.socket.starts = 1
          /\ last'.socket.responder
          /\ last'.socket.tp = last'.c
     /\ FirstFrameStep("resume") =>
          /\ last'.accResult = "none"
          /\ last'.found # NoSession =>
               /\ sock'[last'.found.sock].starts = sock[last'.found.sock].starts
               /\ sock'[last'.found.sock].starts = 1
               /\ sock'[last'.found.sock].tp = last'.c
     /\ \A s \in Sockets :
          /\ sock'[s].starts <= 1
          /\ sock'[s].starts = 1 => sock'[s].responder]_vars

\* C17 happens: a RESUME has re-attached a socket that had been started and
\* paused, while another handler holds a socket of its own.
C17_Witness ==
  /\ last.op = "first"
  /\ last.frame.type = "resume"
  /\ last.found # NoSession
  /\ last.socket.starts = 1
  /\ last.socket.paused
  /\ \E c \in Conns \ {last.c} : socketChan[c] # None

\* The sockets that are active (a handler holds them) or suspended (a
\* session of the store holds them).
ActiveOrSuspended ==
  ({socketChan[c] : c \in Conns} \cup {x.sock : x \in sm}) \ {None}

\* C18: no two sockets that are active or suspended carry the same resume
\* token, and the store holds at most one session per token.
C18_UniqueTokens ==
  /\ \A s, t \in ActiveOrSuspended :
       (s # t /\ sock[s].token # NoToken) => sock[s].token # sock[t].token
  /\ \A x, y \in sm : SessionToken(x) = SessionToken(y) => x = y

\* C19: RESUME_OK is not sent for a session whose deadline has passed: the
\* session a RESUME finds has a deadline after now.
C19_NoResumeOfExpired ==
  [][(FirstFrameStep("resume") /\ last'.found # NoSession) =>
       last'.found.deadline > now]_vars

\* C20: a SETUP that is refused, whatever the reason, leaves the session
\* store as it was.
C20_RejectedSetupKeepsStore ==
  [][(FirstFrameStep("setup") /\ hpc'[last'.c] = "done") => sm' = sm]_vars

\* The handler c is one whose RESUME found its session and whose RESUME_OK
\* could not be sent: its transport is closed while tp.Start is to return.
FailedResume(c) ==
  /\ hpc[c] = "start"
  /\ tp[c].closed
  /\ socketChan[c] # None

Bound == lsn.kind = "tcp" /\ lsn.listener # "nil"

\* The listener and the notifier of a TCP transport: listener.Close is called
\* at most once; the accept loop is reached with the notifier signalled
\* exactly once; Listen has returned after a bind only with the listener
\* closed by exactly one call and the notifier signalled exactly once.
ListenerClosedOnce ==
  lsn.kind = "tcp" =>
    /\ lsn.closes <= 1
    /\ lsn.pc \in {"accept", "stop"} \/ lsn.accepted > 0 => lsn.notified = 1
    /\ lsn.pc = "returned" /\ lsn.listener # "nil" =>
         /\ lsn.listener = "closed"
         /\ lsn.closes = 1
         /\ lsn.notified = 1

\* The result of Listen after a bind: the accept loop of a closed listener
\* ends with nil, and Listen returns what the loop ended with, nil or the
\* wrapped error of Accept.
ListenResult ==
  /\ Bound /\ lsn.pc = "accept" /\ lsn'.pc = "stop" /\ lsn.listener = "closed"
       => lsn'.err = "nil"
  /\ Bound /\ lsn.pc = "stop" /\ lsn'.pc = "returned"
       => lsn'.result = lsn.err /\ lsn.err \in {"nil", errAcceptFailed}

\* C22 as stated: once the context given to a Listen that is accepting is
\* cancelled, the accept loop ends with nil and Listen returns nil.
C22_CancelReturnsNil ==
  [][/\ Bound /\ lsn.ctx = "done" /\ lsn.pc = "accept" /\ lsn'.pc = "stop"
          => lsn'.err = "nil"
     /\ Bound /\ lsn.pc = "stop" /\ lsn'.pc = "returned"
          => lsn'.result = lsn.err]_vars

\* C22: after the context given to Listen of the TCP transport is cancelled,
\* a Listen that has bound its listener eventually returns: nil when Accept
\* ended the loop with io.EOF or the error of the closed listener, as it does
\* once the listener is closed, and the wrapped error when Accept failed with
\* another error before that. Whenever Listen returns after a bind, the
\* listener was closed exactly once and the notifier was signalled exactly
\* once, before the first accept.
C22_ListenReturns ==
  /\ []ListenerClosedOnce
  /\ [][ListenResult]_vars
  /\ (Bound /\ lsn.ctx = "done") ~> (lsn.pc = "returned")

\* C22 happens: the context was cancelled while the TCP transport was
\* accepting, after a connection; Listen has returned nil and serve's
\* deferred Close has run as well, with one call of listener.Close in all.
C22_Witness ==
  /\ Bound
  /\ lsn.ctx = "done"
  /\ lsn.pc = "returned"
  /\ lsn.result = "nil"
  /\ lsn.accepted > 0
  /\ lsn.deferred
  /\ lsn.closes = 1
  /\ lsn.notified = 1

\* C23: the QUIC transport keeps serving when one session misbehaves: while
\* the context is live, Listen waiting for the stream of a session does not
\* return, and a further session can be accepted.
C23_QuicKeepsServing ==
  /\ [](lsn.kind = "quic" /\ lsn.pc = "stream" /\ lsn.ctx = "live"
          /\ lsn.sessions < MaxAccepts => ENABLED QuicAccept)
  /\ [][lsn.kind = "quic" /\ lsn.pc = "stream" /\ lsn.ctx = "live"
          => lsn'.pc # "returned"]_vars

====
